---- MODULE Spec2Model ----
(***************************************************************************)
(* Cross-chain event ingestion core of pallets/cash                        *)
(* (src/pallets/cash/src/internal/events.rs).                              *)
(*                                                                         *)
(* One chain (one ChainId) is modelled: the per-chain storage cells        *)
(* LastProcessedBlock, PendingChainBlocks, PendingChainReorgs and          *)
(* IngressionQueue are keyed by chain and the handlers never touch another *)
(* chain's cells.                                                          *)
(*                                                                         *)
(* Six specifications share the variables:                                 *)
(*   Spec          the on-chain receivers receive_chain_blocks and         *)
(*                 receive_chain_reorg, delivered in a total order;        *)
(*   SpecIngress   one ingress_queue round on a drawn queue and block;     *)
(*   SpecFormulate the worker's formulate_reorg walk on drawn chains;      *)
(*   SpecCall      the receivers, then one call recorded with its inputs;  *)
(*   SpecPipeline  blocks finalized one after another, a round for each;   *)
(*   SpecWorker    invocations of track_chain_events under the named lock. *)
(***************************************************************************)
EXTENDS Integers, Sequences, FiniteSets

VARIABLES
    last_block,      \* LastProcessedBlock[chain]
    pending_blocks,  \* PendingChainBlocks[chain]: sequence of ChainBlockTally
    pending_reorgs,  \* PendingChainReorgs[chain]: sequence of ChainReorgTally
    event_queue,     \* IngressionQueue[chain]: sequence of ChainBlockEvent
    ledger,          \* net number of applications of each event (apply / unapply)
    op,              \* the last message or call: its inputs and its outcome
    fr,              \* formulate_reorg: the walk's locals and its environment
    worker           \* track_chain_events: the clock, the lock and the invocations

vars == <<last_block, pending_blocks, pending_reorgs, event_queue, ledger, op, fr, worker>>

chainVars == <<last_block, pending_blocks, pending_reorgs, event_queue, ledger>>

(***************************************************************************)
(* Parameters (crate::params).  The crate's values are scaled down so that *)
(* the maturity window and the quota are crossed within the bounds.        *)
(***************************************************************************)
MIN_EVENT_BLOCKS == 1

MAX_EVENT_BLOCKS == 3

INGRESS_QUOTA == 10

INGRESS_LARGE == 30

(***************************************************************************)
(* Bounds of the model.                                                    *)
(***************************************************************************)
MaxQueue == 3

MaxMsgLen == 2

MaxPendingReorgs == 1

MaxApplied == 1

MaxIngressHeight == 6

MaxIngressQueue == 3

MaxChainHeight == 3

MaxClock == 4

MaxPipelineHeight == 6

FrIdle == [pc |-> "idle"]

WorkerIdle == [now |-> 0]

OpInit == [kind |-> "init"]

(***************************************************************************)
(* Sequences helpers.                                                      *)
(***************************************************************************)
SeqsUpTo(S, n) == UNION { [1..k -> S] : k \in 0..n }

Last(s) == s[Len(s)]

\* CollectRev::collect_rev: collect, then reverse.
collect_rev(s) == [i \in 1..Len(s) |-> s[Len(s) + 1 - i]]

\* Vec::retain / remove(pos): the sequence without its element at position pos.
RemoveAt(s, pos) == [i \in 1..(Len(s) - 1) |-> IF i < pos THEN s[i] ELSE s[i + 1]]

(***************************************************************************)
(* Events.  An EthereumEvent is a record [kind, asset, amount]; a          *)
(* ChainBlockEvent is (block_number, event).                               *)
(***************************************************************************)
EthEvent(kind, asset, amount) == [kind |-> kind, asset |-> asset, amount |-> amount]

LockSmall == EthEvent("Lock", "ETH", 1)

LockBig == EthEvent("Lock", "ETH", 3)

LockUnsupported == EthEvent("Lock", "XXX", 1)

LockBad == EthEvent("Lock", "ETH", 0)

LockRejected == EthEvent("Lock", "ETH", 2)

LockCashEv == EthEvent("LockCash", "CASH", 3)

ProposalEv == EthEvent("ExecuteProposal", "NONE", 0)

OtherEv == EthEvent("NoticeInvoked", "NONE", 0)

BlockEvent(n, e) == [block_number |-> n, event |-> e]

\* Result<T, Reason>; rpc counts the requests made to produce it.
Ok(v) == [ok |-> TRUE, value |-> v, err |-> "none", rpc |-> 0]

Err(reason) == [ok |-> FALSE, value |-> 0, err |-> reason, rpc |-> 0]

(***************************************************************************)
(* Collaborators of risk_adjusted_value (internal::assets, types).         *)
(***************************************************************************)
\* Supported assets and their USD price per unit.
Price(asset) == CASE asset = "ETH" -> 4 [] asset = "CASH" -> 1 [] OTHER -> 0

get_quantity(asset, amount) ==
    IF asset = "ETH" THEN Ok([asset |-> asset, amount |-> amount]) ELSE Err("AssetNotSupported")

get_cash_quantity(principal) == Ok([asset |-> "CASH", amount |-> principal])

get_value(quantity) == Ok(quantity.amount * Price(quantity.asset))

\* Quantity::decay: non-increasing in the elapsed blocks, decay(v, 0) = v and
\* decay(v, d) = 0 from d = MAX_EVENT_BLOCKS on.
decay(value, elapsed_blocks) ==
    IF elapsed_blocks >= MAX_EVENT_BLOCKS
    THEN Ok(0)
    ELSE Ok((value * (MAX_EVENT_BLOCKS - elapsed_blocks)) \div MAX_EVENT_BLOCKS)

(***************************************************************************)
(* risk_adjusted_value (events.rs 53-104).                                 *)
(***************************************************************************)
risk_adjusted_value(block_event, block_number) ==
    IF block_number < block_event.block_number
    THEN Err("Unreachable")
    ELSE LET elapsed_blocks == block_number - block_event.block_number
             e == block_event.event
         IN  CASE e.kind = "Lock" ->
                    LET quantity == get_quantity(e.asset, e.amount)
                    IN  IF ~quantity.ok THEN quantity
                        ELSE decay(get_value(quantity.value).value, elapsed_blocks)
               [] e.kind = "LockCash" ->
                    decay(get_value(get_cash_quantity(e.amount).value).value, elapsed_blocks)
               [] e.kind = "ExecuteProposal" ->
                    decay(INGRESS_LARGE, elapsed_blocks)
               [] OTHER -> Ok(0)

(***************************************************************************)
(* The ledger mutator (core::apply_chain_event_internal and                *)
(* core::unapply_chain_event_internal).  The ledger counts, per event, its *)
(* applications not yet undone.  The mutator rejects a Lock of amount 0,   *)
(* which is worth nothing, and one lock that has a value, LockRejected.    *)
(***************************************************************************)
LedgerCount(l, ev) == IF ev \in DOMAIN l THEN l[ev] ELSE 0

\* Entries with count 0 are dropped, so that equal ledgers are equal values.
LedgerSet(l, ev, n) ==
    [x \in IF n = 0 THEN (DOMAIN l) \ {ev} ELSE (DOMAIN l) \cup {ev} |->
        IF x = ev THEN n ELSE l[x]]

apply_chain_event_internal(l, ev) ==
    IF ev.event \in {LockBad, LockRejected}
    THEN [ok |-> FALSE, err |-> "MinTxValueNotMet", ledger |-> l]
    ELSE [ok |-> TRUE, err |-> "none", ledger |-> LedgerSet(l, ev, LedgerCount(l, ev) + 1)]

unapply_chain_event_internal(l, ev) ==
    IF ev.event \in {LockBad, LockRejected} \/ LedgerCount(l, ev) = 0
    THEN [ok |-> FALSE, err |-> "InsufficientLiquidity", ledger |-> l]
    ELSE [ok |-> TRUE, err |-> "none", ledger |-> LedgerSet(l, ev, LedgerCount(l, ev) - 1)]

EmptyLedger == [x \in {} |-> 0]

(***************************************************************************)
(* ingress_queue (events.rs 190-258): one round over the queue.            *)
(***************************************************************************)
\* block_num.saturating_sub(event.block_number())
delta_blocks(block_num, block_event) ==
    IF block_num >= block_event.block_number THEN block_num - block_event.block_number ELSE 0

IsMatureStrict(delta) == delta > MIN_EVENT_BLOCKS

\* if delta_blocks >= MIN_EVENT_BLOCKS
IsMature(delta) == delta >= MIN_EVENT_BLOCKS

RiskResultAlwaysComputed(block_event, block_num) == risk_adjusted_value(block_event, block_num)

RiskResultAcceptedLate(block_event, block_num) ==
    IF delta_blocks(block_num, block_event) > MAX_EVENT_BLOCKS + 1
    THEN Ok(0)
    ELSE risk_adjusted_value(block_event, block_num)

\* beyond the max risk block the event is simply accepted
RiskResult(block_event, block_num) ==
    IF delta_blocks(block_num, block_event) > MAX_EVENT_BLOCKS
    THEN Ok(0)
    ELSE risk_adjusted_value(block_event, block_num)

FitsStrict(value, available) == value < available

FitsQuota(value, available) == value <= INGRESS_QUOTA

\* if value <= available
Fits(value, available) == value <= available

\* return true; // retain on queue
Retain(acc, block_event) ==
    [acc EXCEPT !.retained = Append(@, block_event),
                !.steps = Append(@, [available |-> acc.available, removed |-> FALSE])]

IngressEventKeepFailed(acc, block_event, block_num) ==
    IF IsMature(delta_blocks(block_num, block_event))
    THEN LET risk_result == RiskResult(block_event, block_num)
         IN  IF risk_result.ok
             THEN IF Fits(risk_result.value, acc.available)
                  THEN LET applied == apply_chain_event_internal(acc.ledger, block_event)
                       IN  IF applied.ok
                           THEN [acc EXCEPT
                                   !.steps = Append(@, [available |-> acc.available,
                                                        removed |-> TRUE]),
                                   !.available = @ - risk_result.value,
                                   !.ledger = applied.ledger,
                                   !.applied = Append(@, block_event),
                                   !.emitted = Append(@,
                                       [notice |-> "ProcessedChainBlockEvent",
                                        event |-> block_event, reason |-> "none"])]
                           ELSE Retain(acc, block_event)
                  ELSE Retain(acc, block_event)
             ELSE Retain(acc, block_event)
    ELSE Retain(acc, block_event)

\* The closure of event_queue.retain, applied to one event with the round's
\* running state acc = [retained, available, ledger, applied, emitted, steps];
\* steps records, per event of the queue, the quota left when the closure was
\* entered and whether the closure returned false (remove from queue).
IngressEvent(acc, block_event, block_num) ==
    IF IsMature(delta_blocks(block_num, block_event))
    THEN LET risk_result == RiskResult(block_event, block_num)
         IN  IF risk_result.ok
             THEN IF Fits(risk_result.value, acc.available)
                  THEN LET applied == apply_chain_event_internal(acc.ledger, block_event)
                       IN  [acc EXCEPT
                              !.steps = Append(@, [available |-> acc.available,
                                                   removed |-> TRUE]),
                              !.available = @ - risk_result.value,
                              !.ledger = applied.ledger,
                              !.applied = Append(@, block_event),
                              !.emitted = Append(@,
                                  IF applied.ok
                                  THEN [notice |-> "ProcessedChainBlockEvent",
                                        event |-> block_event, reason |-> "none"]
                                  ELSE [notice |-> "FailedProcessingChainBlockEvent",
                                        event |-> block_event, reason |-> applied.err])]
                  ELSE Retain(acc, block_event)
             ELSE Retain(acc, block_event)
    ELSE Retain(acc, block_event)

RECURSIVE IngressRetainNewestFirst(_, _, _, _)
IngressRetainNewestFirst(queue, i, acc, block_num) ==
    IF i > Len(queue)
    THEN acc
    ELSE IngressRetainNewestFirst(queue, i + 1,
                                  IngressEvent(acc, queue[Len(queue) + 1 - i], block_num),
                                  block_num)

\* Vec::retain visits the elements in order, once each, and keeps the
\* retained ones in their order.
RECURSIVE IngressRetain(_, _, _, _)
IngressRetain(queue, i, acc, block_num) ==
    IF i > Len(queue)
    THEN acc
    ELSE IngressRetain(queue, i + 1, IngressEvent(acc, queue[i], block_num), block_num)

\* ingress_queue(last_block, event_queue): the queue after the round, with the
\* ledger, the events applied (in order) and the notices deposited.
ingress_queue(block, queue, l) ==
    IngressRetain(queue, 1,
                  [retained |-> <<>>, available |-> INGRESS_QUOTA, ledger |-> l,
                   applied |-> <<>>, emitted |-> <<>>, steps |-> <<>>],
                  block.number)

(***************************************************************************)
(* Blocks, tallies and the validator set (crate::chains, crate::core).     *)
(***************************************************************************)
ChainBlock(n, h, p, evs) == [number |-> n, hash |-> h, parent_hash |-> p, events |-> evs]

\* get_validator_set: the two validators of the test runtime.
Validators == {"val_a", "val_b"}

\* ChainBlockEvents::push(&block): the block's events, each with the block's number.
push(queue, block) ==
    queue \o [i \in 1..Len(block.events) |-> BlockEvent(block.number, block.events[i])]

\* ChainBlockEvents::position(&event): the first index holding an equal event, 0 for None.
position(queue, ev) ==
    IF \E i \in 1..Len(queue) : queue[i] = ev
    THEN CHOOSE i \in 1..Len(queue) :
            queue[i] = ev /\ \A j \in 1..(i - 1) : queue[j] # ev
    ELSE 0

\* ChainBlockTally::new(block, &validator)
NewBlockTally(block, validator) == [block |-> block, support |-> {validator}, dissent |-> {}]

\* ChainBlockTally::add_support: the signer supports, and no longer dissents.
add_support(tally, validator) ==
    [tally EXCEPT !.support = @ \cup {validator}, !.dissent = @ \ {validator}]

add_dissent_keep_support(tally, validator) ==
    [tally EXCEPT !.dissent = @ \cup {validator}]

\* ChainBlockTally::add_dissent: the signer dissents, and no longer supports.
add_dissent(tally, validator) ==
    [tally EXCEPT !.dissent = @ \cup {validator}, !.support = @ \ {validator}]

\* The quorum rule of the validator-set module: more than two thirds.
passes_validation_threshold(signers, validator_set) ==
    3 * Cardinality(signers \cap validator_set) > 2 * Cardinality(validator_set)

has_enough_support(tally, validator_set) ==
    passes_validation_threshold(tally.support, validator_set)

has_enough_dissent(tally, validator_set) ==
    passes_validation_threshold(tally.dissent, validator_set)

\* recover_validator: a signature is the signer's name; "invalid" does not recover,
\* and a signer outside the validator set is unknown.
recover_validator(signature) ==
    IF signature = "invalid" THEN Err("CryptoError")
    ELSE IF signature \notin Validators THEN Err("UnknownValidator")
    ELSE Ok(signature)

(***************************************************************************)
(* The handlers work on what they read from storage and return a result.   *)
(* Entered(st) is a handler's state on entry: the storage cells it reads,  *)
(* the ledger, and a record of what it has done so far: the notices        *)
(* deposited, the blocks finalized, the ingress_queue rounds run (each     *)
(* with its block and the queue it was given), the events unapplied, the   *)
(* events of reverse blocks taken in the revert phase (each with whether   *)
(* it was unapplied rather than removed from the queue), the pending       *)
(* blocks after the tally loop, the queue after the revert phase, and      *)
(* whether a reorg tally reached quorum and was carried out.               *)
(***************************************************************************)
Entered(st) ==
    [last_block |-> st.last_block, pending_blocks |-> st.pending_blocks,
     pending_reorgs |-> st.pending_reorgs, event_queue |-> st.event_queue,
     ledger |-> st.ledger, emitted |-> <<>>, finalized |-> <<>>, rounds |-> <<>>,
     unapplied |-> <<>>, reverted |-> <<>>, tallied |-> st.pending_blocks,
     reverted_queue |-> st.event_queue, quorum |-> FALSE,
     reorged |-> FALSE, result |-> "Ok"]

\* ensure_none(origin)?: the dispatchables accept unsigned transactions only.
ensure_none(origin) == IF origin = "none" THEN Ok(origin) ELSE Err("BadOrigin")

(***************************************************************************)
(* receive_chain_blocks (events.rs 383-486).                               *)
(***************************************************************************)
\* Lines 400-410: a tally exists at the block's offset.
VoteOnPrior(prior, block, validator) ==
    IF block # prior.block
    THEN add_dissent(prior, validator)
    ELSE add_support(prior, validator)

TallyBlockNoParentCheck(pending, last, block, validator) ==
    IF block.number >= last.number + 1
    THEN LET offset == block.number - last.number - 1
         IN  IF offset < Len(pending)
             THEN [pending EXCEPT ![offset + 1] = VoteOnPrior(@, block, validator)]
             ELSE IF offset = 0 \/ offset - 1 < Len(pending)
                  THEN Append(pending, NewBlockTally(block, validator))
                  ELSE pending
    ELSE pending

TallyBlockNoDerivativeCheck(pending, last, block, validator) ==
    IF block.number >= last.number + 1
    THEN LET offset == block.number - last.number - 1
         IN  IF offset < Len(pending)
             THEN [pending EXCEPT ![offset + 1] = VoteOnPrior(@, block, validator)]
             ELSE IF offset = 0
                  THEN IF block.parent_hash # last.hash
                       THEN pending
                       ELSE Append(pending, NewBlockTally(block, validator))
                  ELSE IF offset - 1 < Len(pending)
                       THEN Append(pending, NewBlockTally(block, validator))
                       ELSE pending
    ELSE pending

TallyBlockByParentOnly(pending, last, block, validator) ==
    IF block.number >= last.number + 1
    THEN LET offset == block.number - last.number - 1
         IN  IF offset < Len(pending)
             THEN [pending EXCEPT ![offset + 1] = VoteOnPrior(@, block, validator)]
             ELSE IF block.parent_hash =
                        (IF pending = <<>> THEN last.hash ELSE Last(pending).block.hash)
                  THEN Append(pending, NewBlockTally(block, validator))
                  ELSE pending
    ELSE pending

\* Lines 398-460: the body of the loop over the message's blocks.  Sequences
\* are 1-based: pending_blocks.get(offset) is pending[offset + 1].
TallyBlock(pending, last, block, validator) ==
    IF block.number >= last.number + 1
    THEN LET offset == block.number - last.number - 1
         IN  IF offset < Len(pending)
             THEN [pending EXCEPT ![offset + 1] = VoteOnPrior(@, block, validator)]
             ELSE IF offset = 0
                  THEN IF block.parent_hash # last.hash
                       THEN pending
                       ELSE Append(pending, NewBlockTally(block, validator))
                  ELSE IF offset - 1 < Len(pending)
                       THEN IF block.parent_hash # pending[offset].block.hash
                            THEN pending
                            ELSE Append(pending, NewBlockTally(block, validator))
                       ELSE pending
    ELSE pending

\* Lines 397-461: for block in blocks.blocks()
RECURSIVE TallyBlocks(_, _, _, _, _)
TallyBlocks(pending, last, blocks, i, validator) ==
    IF i > Len(blocks)
    THEN pending
    ELSE TallyBlocks(TallyBlock(pending, last, blocks[i], validator),
                     last, blocks, i + 1, validator)

RECURSIVE AdvanceBlocksPastHead(_, _, _)
AdvanceBlocksPastHead(clone, i, st) ==
    IF i > Len(clone)
    THEN st
    ELSE LET tally == clone[i]
         IN  IF has_enough_support(tally, Validators)
             THEN LET pushed == push(st.event_queue, tally.block)
                      round == ingress_queue(tally.block, pushed, st.ledger)
                  IN  AdvanceBlocksPastHead(clone, i + 1,
                         [st EXCEPT !.pending_blocks = RemoveAt(@, 1),
                                    !.event_queue = round.retained,
                                    !.last_block = tally.block,
                                    !.ledger = round.ledger,
                                    !.emitted = @ \o round.emitted,
                                    !.finalized = Append(@, tally.block),
                                    !.rounds = Append(@, [block |-> tally.block,
                                                          queue |-> pushed])])
             ELSE IF has_enough_dissent(tally, Validators)
                  THEN [st EXCEPT !.pending_blocks = <<>>]
                  ELSE AdvanceBlocksPastHead(clone, i + 1, st)

RECURSIVE AdvanceBlocksPurgeHeadOnly(_, _, _)
AdvanceBlocksPurgeHeadOnly(clone, i, st) ==
    IF i > Len(clone)
    THEN st
    ELSE LET tally == clone[i]
         IN  IF has_enough_support(tally, Validators)
             THEN LET pushed == push(st.event_queue, tally.block)
                      round == ingress_queue(tally.block, pushed, st.ledger)
                  IN  AdvanceBlocksPurgeHeadOnly(clone, i + 1,
                         [st EXCEPT !.pending_blocks = RemoveAt(@, 1),
                                    !.event_queue = round.retained,
                                    !.last_block = tally.block,
                                    !.ledger = round.ledger,
                                    !.emitted = @ \o round.emitted,
                                    !.finalized = Append(@, tally.block),
                                    !.rounds = Append(@, [block |-> tally.block,
                                                          queue |-> pushed])])
             ELSE IF has_enough_dissent(tally, Validators)
                  THEN [st EXCEPT !.pending_blocks = RemoveAt(@, 1)]
                  ELSE st

\* Lines 463-479: for tally in pending_blocks.clone().iter(); st holds the
\* handler's locals pending_blocks, last_block, event_queue, and the ledger,
\* the notices deposited and the blocks finalized so far.
RECURSIVE AdvanceBlocks(_, _, _)
AdvanceBlocks(clone, i, st) ==
    IF i > Len(clone)
    THEN st
    ELSE LET tally == clone[i]
         IN  IF has_enough_support(tally, Validators)
             THEN LET pushed == push(st.event_queue, tally.block)
                      round == ingress_queue(tally.block, pushed, st.ledger)
                  IN  AdvanceBlocks(clone, i + 1,
                         [st EXCEPT !.pending_blocks = RemoveAt(@, 1),
                                    !.event_queue = round.retained,
                                    !.last_block = tally.block,
                                    !.ledger = round.ledger,
                                    !.emitted = @ \o round.emitted,
                                    !.finalized = Append(@, tally.block),
                                    !.rounds = Append(@, [block |-> tally.block,
                                                          queue |-> pushed])])
             ELSE IF has_enough_dissent(tally, Validators)
                  THEN [st EXCEPT !.pending_blocks = <<>>]
                  ELSE st

receive_chain_blocks_any_signer(st, blocks, signature) ==
    LET tallied == TallyBlocks(st.pending_blocks, st.last_block, blocks, 1, signature)
    IN  AdvanceBlocks(tallied, 1, [Entered(st) EXCEPT !.pending_blocks = tallied,
                                                      !.tallied = tallied])

\* The handler on the storage st = [last_block, pending_blocks, pending_reorgs,
\* event_queue, ledger]: the storage it leaves and its result.
receive_chain_blocks(st, blocks, signature) ==
    LET validator == recover_validator(signature)
        start == Entered(st)
    IN  IF ~validator.ok
        THEN [start EXCEPT !.result = validator.err]
        ELSE LET tallied == TallyBlocks(st.pending_blocks, st.last_block, blocks, 1,
                                        validator.value)
             IN  AdvanceBlocks(tallied, 1, [start EXCEPT !.pending_blocks = tallied,
                                                         !.tallied = tallied])

(***************************************************************************)
(* receive_chain_reorg (events.rs 488-548).                                *)
(***************************************************************************)
ChainReorg(from, to, reverse, forward) ==
    [from_hash |-> from, to_hash |-> to, reverse_blocks |-> reverse, forward_blocks |-> forward]

\* ChainReorgTally::new(chain_id, reorg, &validator)
NewReorgTally(reorg, validator) == [reorg |-> reorg, support |-> {validator}]

\* ChainReorgTally::add_support
add_reorg_support(tally, validator) == [tally EXCEPT !.support = @ \cup {validator}]

\* block.events(): the block's events as ChainBlockEvents.
events(block) == push(<<>>, block)

\* Line 503: pending_reorgs.iter_mut().find(|r| r.reorg == reorg), 0 for None.
FindReorg(reorgs, reorg) ==
    IF \E i \in 1..Len(reorgs) : reorgs[i].reorg = reorg
    THEN CHOOSE i \in 1..Len(reorgs) :
            reorgs[i].reorg = reorg /\ \A j \in 1..(i - 1) : reorgs[j].reorg # reorg
    ELSE 0

TallyReorgAlwaysNew(reorgs, reorg, validator) ==
    [reorgs |-> Append(reorgs, NewReorgTally(reorg, validator)),
     index |-> Len(reorgs) + 1]

\* Lines 503-509: the tallies after the signer's vote, and the index of the tally.
TallyReorg(reorgs, reorg, validator) ==
    LET found == FindReorg(reorgs, reorg)
    IN  IF found # 0
        THEN [reorgs |-> [reorgs EXCEPT ![found] = add_reorg_support(@, validator)],
              index |-> found]
        ELSE [reorgs |-> Append(reorgs, NewReorgTally(reorg, validator)),
              index |-> Len(reorgs) + 1]

RevertEventKeepQueued(st, ev) ==
    LET pos == position(st.event_queue, ev)
    IN  IF pos # 0
        THEN [st EXCEPT !.reverted = Append(@, [event |-> ev, unapply |-> FALSE])]
        ELSE LET undone == unapply_chain_event_internal(st.ledger, ev)
             IN  [st EXCEPT !.ledger = undone.ledger,
                            !.unapplied = Append(@, ev),
                            !.reverted = Append(@, [event |-> ev, unapply |-> TRUE]),
                            !.result = IF undone.ok THEN @ ELSE undone.err]

\* Lines 518-526: one event of a reverse block.
RevertEvent(st, ev) ==
    LET pos == position(st.event_queue, ev)
    IN  IF pos # 0
        THEN [st EXCEPT !.event_queue = RemoveAt(@, pos),
                        !.reverted = Append(@, [event |-> ev, unapply |-> FALSE])]
        ELSE LET undone == unapply_chain_event_internal(st.ledger, ev)
             IN  [st EXCEPT !.ledger = undone.ledger,
                            !.unapplied = Append(@, ev),
                            !.reverted = Append(@, [event |-> ev, unapply |-> TRUE]),
                            !.result = IF undone.ok THEN @ ELSE undone.err]

RECURSIVE RevertBlocksOldestFirst(_, _, _, _)
RevertBlocksOldestFirst(blocks, b, e, st) ==
    IF st.result # "Ok" \/ b > Len(blocks)
    THEN st
    ELSE LET block == blocks[Len(blocks) + 1 - b]
         IN  IF e > Len(block.events)
             THEN RevertBlocksOldestFirst(blocks, b + 1, 1, st)
             ELSE RevertBlocksOldestFirst(blocks, b, e + 1,
                                          RevertEvent(st, events(block)[e]))

\* Lines 517-527: the revert phase; the first failing unapply returns its error.
RECURSIVE RevertBlocks(_, _, _, _)
RevertBlocks(blocks, b, e, st) ==
    IF st.result # "Ok" \/ b > Len(blocks)
    THEN st
    ELSE IF e > Len(blocks[b].events)
         THEN RevertBlocks(blocks, b + 1, 1, st)
         ELSE RevertBlocks(blocks, b, e + 1, RevertEvent(st, events(blocks[b])[e]))

\* Lines 531-535: the forward phase.
RECURSIVE ForwardBlocks(_, _, _)
ForwardBlocks(blocks, b, st) ==
    IF b > Len(blocks)
    THEN st
    ELSE LET pushed == push(st.event_queue, blocks[b])
             round == ingress_queue(blocks[b], pushed, st.ledger)
         IN  ForwardBlocks(blocks, b + 1,
                [st EXCEPT !.event_queue = round.retained,
                           !.last_block = blocks[b],
                           !.ledger = round.ledger,
                           !.emitted = @ \o round.emitted,
                           !.finalized = Append(@, blocks[b]),
                           !.rounds = Append(@, [block |-> blocks[b], queue |-> pushed])])

HashCheckSkipped(reorg, last) == TRUE

\* Line 501: require!(reorg.from_hash() == last_block.hash(), Reason::HashMismatch)
HashCheck(reorg, last) == reorg.from_hash = last.hash

ClearedKeepingBlocks(st) == [st EXCEPT !.pending_reorgs = <<>>]

\* Lines 539-540: both lists of tallies are written empty.
Cleared(st) == [st EXCEPT !.pending_blocks = <<>>, !.pending_reorgs = <<>>]

TalliedDroppingBlocks(st, reorgs) ==
    [st EXCEPT !.pending_reorgs = reorgs, !.pending_blocks = <<>>]

\* Lines 542-545: without quorum only the reorg tallies are written.
Tallied(st, reorgs) == [st EXCEPT !.pending_reorgs = reorgs]

\* The handler on the storage st: the storage it leaves and its result.  The
\* storage cells are written at the end of the handler only (lines 538-544);
\* the ledger is written by each unapply and apply as it is called.
receive_chain_reorg(st, reorg, signature) ==
    LET validator == recover_validator(signature)
        start == Entered(st)
    IN  IF ~validator.ok
        THEN [start EXCEPT !.result = validator.err]
        ELSE IF ~HashCheck(reorg, st.last_block)
        THEN [start EXCEPT !.result = "HashMismatch"]
        ELSE LET tallied == TallyReorg(st.pending_reorgs, reorg, validator.value)
                 tally == tallied.reorgs[tallied.index]
             IN  IF has_enough_support(tally, Validators)
                 THEN LET reverted == RevertBlocks(tally.reorg.reverse_blocks, 1, 1,
                                                   [start EXCEPT !.quorum = TRUE])
                      IN  IF reverted.result # "Ok"
                          THEN [start EXCEPT !.result = reverted.result,
                                             !.ledger = reverted.ledger,
                                             !.unapplied = reverted.unapplied,
                                             !.reverted = reverted.reverted,
                                             !.reverted_queue = reverted.event_queue,
                                             !.quorum = TRUE]
                          ELSE [Cleared(ForwardBlocks(tally.reorg.forward_blocks, 1,
                                              [reverted EXCEPT
                                                 !.reverted_queue = reverted.event_queue]))
                                   EXCEPT !.reorged = TRUE]
                 ELSE Tallied(start, tallied.reorgs)

(***************************************************************************)
(* Spec: the receivers, one message at a time in the substrate's order.    *)
(* Messages are drawn from a small universe of blocks on two forks above   *)
(* the first block, and of reorgs between them, well-formed and not.       *)
(* Block B2 carries two events, one that the ledger accepts followed by    *)
(* one that it rejects, so that a revert of B2 meets both.                 *)
(***************************************************************************)
FirstBlock == ChainBlock(1, 1, 0, <<>>)

BlockA2 == ChainBlock(2, 2, 1, <<LockSmall>>)

BlockB2 == ChainBlock(2, 3, 1, <<OtherEv, LockBad>>)

BlockA3 == ChainBlock(3, 4, 2, <<LockCashEv>>)

BlockB3 == ChainBlock(3, 5, 3, <<>>)

BlockUniverse == {BlockA2, BlockB2, BlockA3, BlockB3}

BlocksMessages == SeqsUpTo(BlockUniverse, MaxMsgLen) \ {<<>>}

\* (to_hash, reverse_blocks, forward_blocks) of the reorgs that are submitted.
ReorgBodies ==
    { <<BlockB2.hash, <<BlockA2>>, <<BlockB2>> >>,
      <<BlockB3.hash, <<BlockA3, BlockA2>>, <<BlockB2, BlockB3>> >>,
      <<BlockA2.hash, <<BlockB2>>, <<BlockA2>> >>,
      <<BlockB2.hash, <<>>, <<>> >> }

\* A worker formulates its reorg from the head it knows: the current one, or
\* the one before it when it lags.
ReorgMessages ==
    { ChainReorg(from, body[1], body[2], body[3]) :
        from \in {last_block.hash, last_block.parent_hash}, body \in ReorgBodies }

Storage ==
    [last_block |-> last_block, pending_blocks |-> pending_blocks,
     pending_reorgs |-> pending_reorgs, event_queue |-> event_queue, ledger |-> ledger]

NoReorg == ChainReorg(0, 0, <<>>, <<>>)

\* The model's bounds on what the handlers leave: the queue's length, the
\* number of reorg tallies and the count of any one event in the ledger.
WithinBounds(st) ==
    /\ Len(st.event_queue) <= MaxQueue
    /\ Len(st.pending_reorgs) <= MaxPendingReorgs
    /\ \A ev \in DOMAIN st.ledger : st.ledger[ev] <= MaxApplied

Store(st) ==
    /\ last_block' = st.last_block
    /\ pending_blocks' = st.pending_blocks
    /\ pending_reorgs' = st.pending_reorgs
    /\ event_queue' = st.event_queue
    /\ ledger' = st.ledger

\* What op keeps of a message: the handler, its result, the from_hash of a
\* reorg message, whether the reorg was carried out and, if so, its to_hash
\* and the numbers of block tallies and of reorg tallies that were pending
\* when the message arrived.
Outcome(kind, reorg, st) ==
    [kind |-> kind, result |-> st.result, reorged |-> st.reorged,
     from_hash |-> reorg.from_hash,
     to_hash |-> IF st.reorged THEN reorg.to_hash ELSE 0,
     had_blocks |-> IF st.reorged THEN Len(pending_blocks) ELSE 0,
     had_reorgs |-> IF st.reorged THEN Len(pending_reorgs) ELSE 0]

Init ==
    /\ last_block = FirstBlock
    /\ pending_blocks = <<>>
    /\ pending_reorgs = <<>>
    /\ event_queue = <<>>
    /\ ledger = EmptyLedger
    /\ op = OpInit
    /\ fr = FrIdle
    /\ worker = WorkerIdle

ReceiveChainBlocks ==
    \E blocks \in BlocksMessages, signature \in Validators :
        LET st == receive_chain_blocks(Storage, blocks, signature)
        IN  /\ WithinBounds(st)
            /\ Store(st)
            /\ op' = Outcome("receive_chain_blocks", NoReorg, st)
            /\ UNCHANGED <<fr, worker>>

ReceiveChainReorg ==
    \E reorg \in ReorgMessages, signature \in Validators :
        LET st == receive_chain_reorg(Storage, reorg, signature)
        IN  /\ WithinBounds(st)
            /\ Store(st)
            /\ op' = Outcome("receive_chain_reorg", reorg, st)
            /\ UNCHANGED <<fr, worker>>

Next == ReceiveChainBlocks \/ ReceiveChainReorg

Spec == Init /\ [][Next]_vars

(***************************************************************************)
(* Claims about the receivers.                                             *)
(***************************************************************************)
\* C1 (parent-hash chain): PendingChainBlocks is a parent-hash chain rooted
\* at LastProcessedBlock: the first tally's block has LastProcessedBlock's
\* hash as parent_hash, and every later tally's block has the hash of the
\* block before it.
C1_ParentHashChain ==
    \A i \in 1..Len(pending_blocks) :
        pending_blocks[i].block.parent_hash =
            (IF i = 1 THEN last_block.hash ELSE pending_blocks[i - 1].block.hash)

\* C1 witness: a quorum has advanced the head to a block whose child was
\* already pending, and the child is now the first tally.
C1_Witness ==
    /\ op.kind = "receive_chain_blocks"
    /\ last_block = BlockA2
    /\ Len(pending_blocks) = 1
    /\ pending_blocks[1].block = BlockA3

\* C2 (support and dissent disjoint): no validator is in both the support
\* and the dissent set of a pending block's tally.
C2_SupportDissentDisjoint ==
    \A i \in 1..Len(pending_blocks) :
        pending_blocks[i].support \cap pending_blocks[i].dissent = {}

\* C2 witness: a tally that its own first supporter has left for the dissent
\* (a tally is created with its signer as supporter), next to a supporter.
C2_Witness ==
    \E i \in 1..Len(pending_blocks) :
        /\ pending_blocks[i].dissent # {}
        /\ pending_blocks[i].support # {}
        /\ pending_blocks[i].support \cap pending_blocks[i].dissent = {}
        /\ \E j \in 1..Len(pending_blocks) :
              pending_blocks[j].support = {} /\ pending_blocks[j].dissent # {}

\* C3 (queued events are not above the head), as claimed: every event in the
\* IngressionQueue has a block number at most LastProcessedBlock.number.
C3_QueueNotAboveHead ==
    \A i \in 1..Len(event_queue) : event_queue[i].block_number <= last_block.number

\* C4 (a reorg ends at to_hash), as claimed: after a reorg that reached
\* quorum has been carried out, LastProcessedBlock.hash is the reorg's to_hash.
C4_ReorgEndsAtToHash ==
    (op.kind = "receive_chain_reorg" /\ op.reorged) => last_block.hash = op.to_hash

\* C5 (HashMismatch changes nothing): a receive_chain_reorg message whose
\* from_hash differs from LastProcessedBlock.hash fails with HashMismatch and
\* leaves LastProcessedBlock, PendingChainBlocks, PendingChainReorgs, the
\* IngressionQueue and the ledger as they were; and every reorg carried out
\* had from_hash equal to the LastProcessedBlock.hash before it.
C5_HashMismatchNoChange ==
    [][ /\ (op'.kind = "receive_chain_reorg" /\ op'.from_hash # last_block.hash)
           => (op'.result = "HashMismatch" /\ ~op'.reorged /\ UNCHANGED chainVars)
        /\ (op'.kind = "receive_chain_reorg" /\ op'.reorged)
           => (op'.from_hash = last_block.hash /\ op'.result = "Ok")
      ]_vars

\* C5 witness: a reorg message was rejected with HashMismatch while a reorg
\* tally and a block tally were pending.
C5_Witness ==
    /\ op.kind = "receive_chain_reorg"
    /\ op.result = "HashMismatch"
    /\ pending_reorgs # <<>>
    /\ pending_blocks # <<>>

AsStorage(st) ==
    [last_block |-> st.last_block, pending_blocks |-> st.pending_blocks,
     pending_reorgs |-> st.pending_reorgs, event_queue |-> st.event_queue,
     ledger |-> st.ledger]

\* C6 (idempotent vote), as claimed: from the current storage, delivering any
\* blocks message of any validator a second time right after the first leaves
\* PendingChainBlocks as the first delivery left it.
C6_IdempotentVote ==
    \A blocks \in BlocksMessages, signature \in Validators :
        LET first == receive_chain_blocks(Storage, blocks, signature)
            second == receive_chain_blocks(AsStorage(first), blocks, signature)
        IN  second.pending_blocks = first.pending_blocks

\* The late message of a reorg that the delivery of (reorg, signature) has
\* just carried out: the same reorg, delivered once more by the validator
\* late, to the storage that the reorg left.
LateReorg(reorg, signature, late) ==
    receive_chain_reorg(AsStorage(receive_chain_reorg(Storage, reorg, signature)),
                        reorg, late)

\* C31 (a reorg is applied at most once), as claimed: whenever the delivery
\* of a reorg message to the current storage carries the reorg out, the
\* reorg started at the head (its from_hash was LastProcessedBlock.hash), it
\* leaves no reorg tally behind, and the same reorg delivered once more by
\* any validator is rejected with HashMismatch and changes nothing.
C31_ReorgAppliedOnce ==
    \A reorg \in ReorgMessages, signature \in Validators :
        LET first == receive_chain_reorg(Storage, reorg, signature)
        IN  first.reorged =>
                /\ reorg.from_hash = last_block.hash
                /\ first.pending_reorgs = <<>>
                /\ \A late \in Validators :
                      LET second == LateReorg(reorg, signature, late)
                      IN  /\ second.result = "HashMismatch"
                          /\ AsStorage(second) = AsStorage(first)

(***************************************************************************)
(* SpecIngress: one ingress_queue round.  The queue and the number of the  *)
(* block that was last finalized are drawn; a queued event may be older    *)
(* than MAX_EVENT_BLOCKS, as young as the block itself, or (after a reorg  *)
(* to a lower head) numbered above it.                                     *)
(***************************************************************************)
IngressKinds == {LockBig, LockUnsupported, LockRejected, LockCashEv, ProposalEv, OtherEv}

IngressEvents == { BlockEvent(n, e) : n \in {2, 5, 6}, e \in IngressKinds }

PlainBlock(n) == [number |-> n, hash |-> n, parent_hash |-> n - 1, events |-> <<>>]

InitIngress ==
    /\ last_block \in { PlainBlock(n) : n \in (MaxIngressHeight - 2)..MaxIngressHeight }
    /\ event_queue \in SeqsUpTo(IngressEvents, MaxIngressQueue)
    /\ pending_blocks = <<>>
    /\ pending_reorgs = <<>>
    /\ ledger = EmptyLedger
    /\ op = OpInit
    /\ fr = FrIdle
    /\ worker = WorkerIdle

IngressRound ==
    /\ op.kind = "init"
    /\ LET round == ingress_queue(last_block, event_queue, ledger)
       IN  /\ event_queue' = round.retained
           /\ ledger' = round.ledger
           /\ op' = [kind |-> "ingress_queue", before |-> event_queue,
                     applied |-> round.applied, emitted |-> round.emitted,
                     steps |-> round.steps, available |-> round.available]
    /\ UNCHANGED <<last_block, pending_blocks, pending_reorgs, fr, worker>>

NextIngress == IngressRound

SpecIngress == InitIngress /\ [][NextIngress]_vars

(***************************************************************************)
(* Claims about ingress_queue, stated on the round that op records.        *)
(***************************************************************************)
RoundDone == op.kind = "ingress_queue"

\* The age of a queued event as the claims define it.
Age(ev) == IF last_block.number >= ev.block_number
           THEN last_block.number - ev.block_number ELSE 0

RECURSIVE SumValues(_)
SumValues(q) ==
    IF q = <<>> THEN 0
    ELSE risk_adjusted_value(q[1], last_block.number).value + SumValues(Tail(q))

IsYoung(ev) == Age(ev) < MIN_EVENT_BLOCKS

IsOld(ev) == Age(ev) >= MIN_EVENT_BLOCKS

MatureOf(q) == SelectSeq(q, IsOld)

YoungOf(q) == SelectSeq(q, IsYoung)

AllValued(q) == \A i \in 1..Len(q) : risk_adjusted_value(q[i], last_block.number).ok

\* C8 (queue monotone drain): when the risk-adjusted values of all mature
\* events of the queue are computable and sum to at most INGRESS_QUOTA, the
\* round removes every mature event: what remains is exactly the immature
\* events, in their order.
C8_MonotoneDrain ==
    (RoundDone /\ AllValued(MatureOf(op.before))
               /\ SumValues(MatureOf(op.before)) <= INGRESS_QUOTA)
        => event_queue = YoungOf(op.before)

\* C8 witness: a round whose mature events use up the quota exactly, all
\* drained, with an immature event left behind.
C8_Witness ==
    /\ RoundDone
    /\ AllValued(MatureOf(op.before))
    /\ SumValues(MatureOf(op.before)) = INGRESS_QUOTA
    /\ Len(MatureOf(op.before)) = 2
    /\ Len(event_queue) = 1
    /\ Len(op.applied) = 2

\* C9 (maturity): the round neither applies nor removes an event younger
\* than MIN_EVENT_BLOCKS (the young events are retained, in order, and no
\* applied event is young), and an event aged exactly MIN_EVENT_BLOCKS whose
\* risk-adjusted value fits the quota left when it is reached is removed and
\* applied.
C9_Maturity ==
    RoundDone =>
        /\ YoungOf(event_queue) = YoungOf(op.before)
        /\ \A i \in 1..Len(op.applied) : ~IsYoung(op.applied[i])
        /\ \A i \in 1..Len(op.before) :
              IsYoung(op.before[i]) => ~op.steps[i].removed
        /\ \A i \in 1..Len(op.before) :
              LET ev == op.before[i]
                  risk == risk_adjusted_value(ev, last_block.number)
              IN  (Age(ev) = MIN_EVENT_BLOCKS /\ risk.ok
                     /\ risk.value <= op.steps[i].available)
                    => /\ op.steps[i].removed
                       /\ \E j \in 1..Len(op.applied) : op.applied[j] = ev

\* C9 witness: a round that retains an event of the finalized block itself
\* and applies one aged exactly MIN_EVENT_BLOCKS.
C9_Witness ==
    /\ RoundDone
    /\ \E i \in 1..Len(op.before) :
          /\ op.before[i].block_number = last_block.number
          /\ ~op.steps[i].removed
    /\ \E i \in 1..Len(op.before) :
          /\ last_block.number - op.before[i].block_number = MIN_EVENT_BLOCKS
          /\ op.steps[i].removed

\* C10 (full decay): an event older than MAX_EVENT_BLOCKS is removed and
\* applied in the round, whatever its kind, whether or not its risk-adjusted
\* value can be computed, and whatever quota is left.
C10_FullyDecayed ==
    RoundDone =>
        \A i \in 1..Len(op.before) :
            (last_block.number - op.before[i].block_number > MAX_EVENT_BLOCKS)
              => /\ op.steps[i].removed
                 /\ \E j \in 1..Len(op.applied) : op.applied[j] = op.before[i]
                 /\ Len(event_queue) < Len(op.before)

\* C10 witness: the quota is used up when an event older than
\* MAX_EVENT_BLOCKS, whose value cannot be computed, is reached; it is removed.
C10_Witness ==
    /\ RoundDone
    /\ \E i \in 1..Len(op.before) :
          /\ last_block.number - op.before[i].block_number = MAX_EVENT_BLOCKS + 1
          /\ op.before[i].event = LockUnsupported
          /\ op.steps[i].available = 0
          /\ op.steps[i].removed

\* The events of the queue that the round removed (kept = FALSE) or retained
\* (kept = TRUE), in the queue's order.
RECURSIVE Examined(_, _, _, _)
Examined(queue, steps, i, kept) ==
    IF i > Len(queue) THEN <<>>
    ELSE (IF steps[i].removed # kept THEN <<queue[i]>> ELSE <<>>)
            \o Examined(queue, steps, i + 1, kept)

\* The value charged to the quota for an event that the round removes.
Charged(ev) == RiskResult(ev, last_block.number).value

\* The ledger rejects the event, whatever the ledger holds.
Rejects(ev) == ~apply_chain_event_internal(EmptyLedger, ev).ok

\* C23 (an apply failure is not propagated): the round examines every event
\* of the queue, also after an event whose apply failed; it removes an event
\* exactly when the event is mature and its value is computed and fits the
\* quota left, whether or not the ledger then accepts it; the events it
\* removes are exactly those it called apply for, and it deposits exactly
\* one notice for each, in order: ProcessedChainBlockEvent when the apply
\* succeeded, FailedProcessingChainBlockEvent with the ledger's reason when
\* it failed; the failed event is off the queue and not in the ledger; and
\* the quota left after an event is the quota before it less the value of
\* the event if it was removed, whether its apply succeeded or failed.
C23_ApplyFailureNotPropagated ==
    RoundDone =>
        LET removed == Examined(op.before, op.steps, 1, FALSE)
        IN  /\ Len(op.steps) = Len(op.before)
            /\ \A i \in 1..Len(op.before) :
                  op.steps[i].removed <=>
                     /\ IsOld(op.before[i])
                     /\ RiskResult(op.before[i], last_block.number).ok
                     /\ Charged(op.before[i]) <= op.steps[i].available
            /\ event_queue = Examined(op.before, op.steps, 1, TRUE)
            /\ op.applied = removed
            /\ Len(op.emitted) = Len(removed)
            /\ \A j \in 1..Len(removed) :
                  /\ op.emitted[j].event = removed[j]
                  /\ op.emitted[j].notice =
                        (IF Rejects(removed[j]) THEN "FailedProcessingChainBlockEvent"
                         ELSE "ProcessedChainBlockEvent")
                  /\ op.emitted[j].reason =
                        apply_chain_event_internal(EmptyLedger, removed[j]).err
                  /\ Rejects(removed[j]) => LedgerCount(ledger, removed[j]) = 0
            /\ \A i \in 1..Len(op.before) :
                  (IF i = Len(op.before) THEN op.available ELSE op.steps[i + 1].available)
                     = op.steps[i].available
                         - (IF op.steps[i].removed THEN Charged(op.before[i]) ELSE 0)

\* C23 witness: the apply of the first event failed after its value was
\* taken from the quota; the round went on, applied the second event and
\* retained the third, whose value exceeds the quota left but not the quota
\* left plus the value of the failed event.
C23_Witness ==
    /\ RoundDone
    /\ Len(op.before) = 3
    /\ Rejects(op.before[1])
    /\ Charged(op.before[1]) > 0
    /\ op.steps[1].removed
    /\ op.emitted[1].notice = "FailedProcessingChainBlockEvent"
    /\ op.steps[2].removed
    /\ op.emitted[2].notice = "ProcessedChainBlockEvent"
    /\ ~op.steps[3].removed
    /\ RiskResult(op.before[3], last_block.number).ok
    /\ Charged(op.before[3]) > op.steps[3].available
    /\ Charged(op.before[3]) <= op.steps[3].available + Charged(op.before[1])
    /\ event_queue = <<op.before[3]>>

\* The queue served strictly in its order from position i with the quota
\* left: for each event, the quota it meets and whether it is taken, which
\* it is when it is mature, valued and worth at most that quota.
RECURSIVE ServedInOrder(_, _, _)
ServedInOrder(queue, i, left) ==
    IF i > Len(queue) THEN <<>>
    ELSE LET ev == queue[i]
             taken == /\ IsOld(ev)
                      /\ RiskResult(ev, last_block.number).ok
                      /\ Charged(ev) <= left
         IN  <<[available |-> left, removed |-> taken]>>
                \o ServedInOrder(queue, i + 1, IF taken THEN left - Charged(ev) ELSE left)

\* C26 (queue order): a round serves the queue strictly in its order: each
\* event meets the quota that the events before it in the queue have left,
\* the events applied are applied in the order they sat in the queue, with
\* their notices in that order, and the events retained keep their
\* relative order.
C26_QueueOrder ==
    RoundDone =>
        LET served == ServedInOrder(op.before, 1, INGRESS_QUOTA)
        IN  /\ op.steps = served
            /\ op.applied = Examined(op.before, served, 1, FALSE)
            /\ [j \in 1..Len(op.emitted) |-> op.emitted[j].event] = op.applied
            /\ event_queue = Examined(op.before, served, 1, TRUE)

\* C26 witness: the first two events of the queue each fit the quota alone
\* but not together; the first is applied and the second retained, ahead
\* of a third, different event that is retained too.
C26_Witness ==
    /\ RoundDone
    /\ Len(op.before) = 3
    /\ op.steps[1].removed
    /\ IsOld(op.before[2])
    /\ RiskResult(op.before[2], last_block.number).ok
    /\ Charged(op.before[2]) <= INGRESS_QUOTA
    /\ Charged(op.before[1]) < Charged(op.before[2])
    /\ ~op.steps[2].removed
    /\ ~op.steps[3].removed
    /\ op.before[2] # op.before[3]
    /\ op.applied = <<op.before[1]>>
    /\ event_queue = <<op.before[2], op.before[3]>>

\* The quota left after position i of the queue.
AvailableAfter(i) ==
    IF i = Len(op.before) THEN op.available ELSE op.steps[i + 1].available

\* C27 (quota per round): the quota left starts at INGRESS_QUOTA and is
\* never negative; an event is applied only if its value is at most the
\* quota left, which is then reduced by exactly that value; an event that is
\* retained, one whose value exceeds the quota left included, leaves the
\* quota as it is; so the risk-adjusted values of the events applied in the
\* round sum to INGRESS_QUOTA less the quota left at the end, at most
\* INGRESS_QUOTA.
C27_QuotaPerRound ==
    RoundDone =>
        /\ op.before # <<>> => op.steps[1].available = INGRESS_QUOTA
        /\ op.before = <<>> => op.available = INGRESS_QUOTA
        /\ op.available >= 0
        /\ \A i \in 1..Len(op.before) :
              LET ev == op.before[i]
                  left == op.steps[i].available
              IN  /\ left >= 0
                  /\ left <= INGRESS_QUOTA
                  /\ op.steps[i].removed
                        => (Charged(ev) <= left /\ AvailableAfter(i) = left - Charged(ev))
                  /\ ~op.steps[i].removed => AvailableAfter(i) = left
                  /\ (RiskResult(ev, last_block.number).ok /\ Charged(ev) > left)
                        => ~op.steps[i].removed
                  /\ risk_adjusted_value(ev, last_block.number).ok
                        => risk_adjusted_value(ev, last_block.number).value = Charged(ev)
        /\ SumValues(op.applied) = INGRESS_QUOTA - op.available
        /\ SumValues(op.applied) <= INGRESS_QUOTA

\* C27 witness: the first event is applied; the second exceeds the quota
\* left and is retained without reducing it; the third fits what is left
\* and is applied, which uses the quota up.
C27_Witness ==
    /\ RoundDone
    /\ Len(op.before) = 3
    /\ op.steps[1].removed
    /\ Charged(op.before[1]) > 0
    /\ ~op.steps[2].removed
    /\ RiskResult(op.before[2], last_block.number).ok
    /\ Charged(op.before[2]) > op.steps[2].available
    /\ Charged(op.before[2]) <= INGRESS_QUOTA
    /\ op.steps[3].available = op.steps[2].available
    /\ op.steps[3].removed
    /\ Charged(op.before[3]) > 0
    /\ op.available = 0
    /\ SumValues(op.applied) = INGRESS_QUOTA

(***************************************************************************)
(* formulate_reorg (events.rs 303-368) and recall_chain_block (286-300).   *)
(*                                                                         *)
(* The worker's environment is drawn as in the tests' gen_blocks: an old   *)
(* chain (pad 0) that the worker followed, and the chain the node now      *)
(* serves by number, which is the old chain below height fork and a new    *)
(* chain (pad 1) from there on.  The block at height 0 has the zero hash   *)
(* as parent.  The worker's cache holds the old blocks it memorized, those *)
(* from height cache_from up; the by-hash RPC either serves every block of *)
(* the two chains or fails.  The worker memorizes the blocks it submits,   *)
(* so its cache holds no block below first_block.                          *)
(***************************************************************************)
ZeroHash == 0

GenHash(n, pad) == 10 * (n + 1) + pad

\* gen_blocks: the old chain's block at height n.
OldBlock(n) ==
    ChainBlock(n, GenHash(n, 0), IF n = 0 THEN ZeroHash ELSE GenHash(n - 1, 0), <<>>)

\* The block the node serves at height n.
NewBlock(n, fork) ==
    IF n < fork THEN OldBlock(n)
    ELSE ChainBlock(n, GenHash(n, 1),
                    IF n = 0 THEN ZeroHash
                    ELSE IF n - 1 < fork THEN GenHash(n - 1, 0) ELSE GenHash(n - 1, 1),
                    <<>>)

Heights == 0..MaxChainHeight

\* fetch_chain_block(chain_id, number, starport)
fetch_chain_block(env, number) ==
    IF number \in Heights THEN Ok(NewBlock(number, env.fork)) ELSE Err("FetchError")

\* fetch_chain_block_by_hash(chain_id, hash, starport)
fetch_chain_block_by_hash(env, hash) ==
    IF env.rpc_by_hash /\ \E n \in Heights : hash \in {OldBlock(n).hash, NewBlock(n, env.fork).hash}
    THEN LET n == CHOOSE n \in Heights : hash \in {OldBlock(n).hash, NewBlock(n, env.fork).hash}
         IN  Ok(IF hash = OldBlock(n).hash THEN OldBlock(n) ELSE NewBlock(n, env.fork))
    ELSE Err("FetchError")

\* The worker's cache (memorize_chain_blocks): the old blocks from cache_from up.
Memorized(env, hash) ==
    \E n \in Heights : n >= env.cache_from /\ n <= env.top /\ OldBlock(n).hash = hash

\* The cached block with the given hash.
CachedBlock(hash) == CHOOSE b \in { OldBlock(n) : n \in Heights } : b.hash = hash

recall_chain_block_rpc_first(env, hash) ==
    LET fetched == fetch_chain_block_by_hash(env, hash)
    IN  IF fetched.ok THEN [fetched EXCEPT !.rpc = 1]
        ELSE IF Memorized(env, hash) THEN [Ok(CachedBlock(hash)) EXCEPT !.rpc = 1]
        ELSE [Err("MissingBlock") EXCEPT !.rpc = 1]

\* The result carries rpc, the number of by-hash requests made (0 or 1).
recall_chain_block(env, hash) ==
    IF Memorized(env, hash)
    THEN [Ok(CachedBlock(hash)) EXCEPT !.rpc = 0]
    ELSE LET fetched == fetch_chain_block_by_hash(env, hash)
         IN  IF fetched.ok THEN [fetched EXCEPT !.rpc = 1]
             ELSE [Err("MissingBlock") EXCEPT !.rpc = 1]

\* Lines 336-343: the two breaks of the loop.
WalkDone(reverse_block_next, drawrof_block_next, first_block_number) ==
    \/ reverse_block_next.parent_hash = drawrof_block_next.parent_hash
    \/ reverse_block_next.number = first_block_number

\* Lines 324-344: the iteration past the height test.
WalkStep(w) ==
    IF w.drawrof_block_next.number = 0
    THEN [w EXCEPT !.pc = "done", !.result = "Underflow"]
    ELSE LET next_block_number == w.drawrof_block_next.number - 1
             recalled == recall_chain_block(w.env, w.reverse_block_next.parent_hash)
             fetched == fetch_chain_block(w.env, next_block_number)
         IN  IF ~recalled.ok
             THEN [w EXCEPT !.pc = "done", !.result = recalled.err,
                            !.recalls = @ + 1, !.by_hash_requests = @ + recalled.rpc]
             ELSE IF ~fetched.ok
             THEN [w EXCEPT !.pc = "done", !.result = fetched.err,
                            !.recalls = @ + 1, !.by_hash_requests = @ + recalled.rpc,
                            !.fetches = @ + 1]
             ELSE [w EXCEPT
                     !.reverse_block_next = recalled.value,
                     !.drawrof_block_next = fetched.value,
                     !.reverse_blocks = Append(@, recalled.value),
                     !.drawrof_blocks = Append(@, fetched.value),
                     !.recalls = @ + 1, !.by_hash_requests = @ + recalled.rpc,
                     !.fetches = @ + 1,
                     !.pc = IF WalkDone(recalled.value, fetched.value, w.env.first_number)
                            THEN "emit" ELSE "loop"]

LoopIterationNoHeightTest(w) == WalkStep(w)

\* Lines 318-344: one iteration of the loop, on the walk's locals w, which
\* count the calls of recall_chain_block (recalls), of fetch_chain_block
\* (fetches) and the by-hash requests (by_hash_requests).
LoopIteration(w) ==
    IF w.reverse_block_next.number # w.drawrof_block_next.number
    THEN [w EXCEPT !.pc = "done", !.result = "BlockMismatch"]
    ELSE WalkStep(w)

EmitReorgNotReversed(w) ==
    ChainReorg(w.env.last.hash, w.env.true.hash, w.reverse_blocks, w.drawrof_blocks)

\* Lines 346-367: the reorg that is returned.
EmitReorg(w) ==
    ChainReorg(w.env.last.hash, w.env.true.hash, w.reverse_blocks,
               collect_rev(w.drawrof_blocks))

\* Lines 308-316: the locals before the loop.
StartWalk(env) ==
    [pc |-> "loop", env |-> env,
     reverse_blocks |-> <<env.last>>, drawrof_blocks |-> <<env.true>>,
     reverse_block_next |-> env.last, drawrof_block_next |-> env.true,
     iterations |-> 0, recalls |-> 0, fetches |-> 0, by_hash_requests |-> 0,
     result |-> "none", reorg |-> NoReorg]

\* The environments drawn: the worker's head is the old chain's block at
\* height top; the true block is the node's block at that height, or (a node
\* that lags) the one below; first_block is at the head's height or below.
Environments ==
    { [top |-> top, fork |-> fork, first_number |-> first, cache_from |-> cache_from,
       rpc_by_hash |-> rpc, last |-> OldBlock(top), true |-> NewBlock(true_number, fork)] :
        top \in Heights, fork \in Heights, first \in Heights, cache_from \in Heights,
        rpc \in BOOLEAN, true_number \in Heights }

InitFormulate ==
    /\ last_block = FirstBlock
    /\ pending_blocks = <<>>
    /\ pending_reorgs = <<>>
    /\ event_queue = <<>>
    /\ ledger = EmptyLedger
    /\ op = OpInit
    /\ worker = WorkerIdle
    /\ \E env \in Environments :
          /\ env.fork <= env.top
          /\ env.first_number <= env.top
          /\ env.cache_from >= env.first_number
          /\ env.true.number \in {env.top, env.top - 1}
          /\ fr = StartWalk(env)

FormulateLoop ==
    /\ fr.pc = "loop"
    /\ fr' = [LoopIteration(fr) EXCEPT !.iterations = fr.iterations + 1]
    /\ UNCHANGED <<chainVars, op, worker>>

FormulateEmit ==
    /\ fr.pc = "emit"
    /\ fr' = [fr EXCEPT !.pc = "done", !.result = "Ok", !.reorg = EmitReorg(fr)]
    /\ UNCHANGED <<chainVars, op, worker>>

NextFormulate == FormulateLoop \/ FormulateEmit

SpecFormulate == InitFormulate /\ [][NextFormulate]_vars

(***************************************************************************)
(* Claims about formulate_reorg.                                           *)
(***************************************************************************)
\* C7 (iteration bound), as claimed: formulate_reorg makes at most
\* last_block.number - first_block.number + 1 iterations of its loop.
C7_IterationBound ==
    fr.pc # "idle" => fr.iterations <= fr.env.last.number - fr.env.first_number + 1

\* The walk has returned (a reorg or an error).
Returned == fr.pc = "done"

\* C15 (height mismatch): formulate_reorg fails with BlockMismatch exactly
\* when an iteration starts with the two walks' current blocks at different
\* numbers, and then returns no reorg; when last_block.number differs from
\* true_block.number it fails so in its first iteration, having recalled and
\* fetched no block.
C15_BlockMismatch ==
    /\ (Returned /\ fr.result = "BlockMismatch")
          => /\ fr.reverse_block_next.number # fr.drawrof_block_next.number
             /\ fr.reorg = NoReorg
    /\ (Returned /\ fr.result # "BlockMismatch")
          => \A i \in 1..fr.iterations :
                fr.reverse_blocks[i].number = fr.drawrof_blocks[i].number
    /\ (Returned /\ fr.env.last.number # fr.env.true.number)
          => /\ fr.result = "BlockMismatch"
             /\ fr.iterations = 1
             /\ fr.recalls = 0 /\ fr.fetches = 0 /\ fr.by_hash_requests = 0
             /\ fr.reverse_blocks = <<fr.env.last>>

\* C15 witness: the node's block is one below the worker's head, on the old
\* chain and cached, and the walk failed with BlockMismatch at once.
C15_Witness ==
    /\ Returned
    /\ fr.result = "BlockMismatch"
    /\ fr.env.true.number + 1 = fr.env.last.number
    /\ fr.env.cache_from < fr.env.top
    /\ fr.env.rpc_by_hash
    /\ fr.recalls = 0 /\ fr.fetches = 0

\* The hash is neither in the worker's cache nor served by the by-hash RPC.
Missing(env, hash) == ~Memorized(env, hash) /\ ~fetch_chain_block_by_hash(env, hash).ok

\* The blocks the reverse walk has recalled so far that were not cached.
RecalledByRpc ==
    { i \in 2..Len(fr.reverse_blocks) : ~Memorized(fr.env, fr.reverse_blocks[i].hash) }

\* C16 (missing block): an iteration that needs the parent of the current
\* reverse-walk block, when the parent is neither cached nor served by the
\* by-hash RPC, fails with MissingBlock and returns no reorg, and
\* MissingBlock is returned in no other case; a block that is cached is
\* recalled without a by-hash request: the requests made are one per
\* recalled block that was not cached, and one for the block found missing.
C16_MissingBlock ==
    /\ (Returned /\ fr.result = "MissingBlock")
          => /\ Missing(fr.env, fr.reverse_block_next.parent_hash)
             /\ fr.reorg = NoReorg
    /\ (fr.pc = "loop"
          /\ fr.reverse_block_next.number = fr.drawrof_block_next.number
          /\ fr.drawrof_block_next.number > 0
          /\ Missing(fr.env, fr.reverse_block_next.parent_hash))
          => /\ LoopIteration(fr).result = "MissingBlock"
             /\ LoopIteration(fr).pc = "done"
    /\ fr.pc # "idle"
          => /\ fr.by_hash_requests =
                   Cardinality(RecalledByRpc) + (IF fr.result = "MissingBlock" THEN 1 ELSE 0)
             /\ \A i \in 2..Len(fr.reverse_blocks) :
                   ~Missing(fr.env, fr.reverse_blocks[i].hash)

\* C16 witness: the walk recalled a cached block without a by-hash request,
\* then needed a block that is not cached while the RPC fails, and returned
\* MissingBlock.
C16_Witness ==
    /\ Returned
    /\ fr.result = "MissingBlock"
    /\ fr.recalls = 2
    /\ fr.by_hash_requests = 1
    /\ Len(fr.reverse_blocks) = 2
    /\ Memorized(fr.env, fr.reverse_blocks[2].hash)

\* C17 (shape of the reorg): a reorg that formulate_reorg returns has
\* from_hash = last_block.hash and to_hash = true_block.hash; its
\* reverse_blocks run from last_block down, each block the parent of the one
\* before; its forward_blocks run up to true_block, each block the parent of
\* the one after; and when the walk ended on a common ancestor (the lowest
\* blocks of the two lists have the same parent), reverse_blocks is the old
\* chain above that ancestor, newest first, and forward_blocks the node's
\* chain above it, oldest first.
C17_ReorgShape ==
    (Returned /\ fr.result = "Ok") =>
        LET rev == fr.reorg.reverse_blocks
            fwd == fr.reorg.forward_blocks
            top == fr.env.last.number
            ancestor == Last(rev).number - 1
        IN  /\ fr.reorg.from_hash = fr.env.last.hash
            /\ fr.reorg.to_hash = fr.env.true.hash
            /\ Len(rev) = Len(fwd)
            /\ Len(rev) >= 2
            /\ rev[1] = fr.env.last
            /\ Last(fwd) = fr.env.true
            /\ \A i \in 1..(Len(rev) - 1) :
                  /\ rev[i + 1].number = rev[i].number - 1
                  /\ rev[i + 1].hash = rev[i].parent_hash
            /\ \A i \in 1..(Len(fwd) - 1) :
                  /\ fwd[i + 1].number = fwd[i].number + 1
                  /\ fwd[i + 1].parent_hash = fwd[i].hash
            /\ Last(rev).parent_hash = fwd[1].parent_hash
                  => /\ rev = [i \in 1..(top - ancestor) |-> OldBlock(top + 1 - i)]
                     /\ fwd = [i \in 1..(top - ancestor) |-> NewBlock(ancestor + i, fr.env.fork)]
                     /\ ancestor >= 0
                           => /\ OldBlock(ancestor) = NewBlock(ancestor, fr.env.fork)
                              /\ OldBlock(ancestor).hash = fwd[1].parent_hash

\* C17 witness: a reorg of three blocks each way was returned, the walk
\* having ended above first_block on the common parent of two different
\* blocks.
C17_Witness ==
    /\ Returned
    /\ fr.result = "Ok"
    /\ Len(fr.reorg.reverse_blocks) = 3
    /\ Len(fr.reorg.forward_blocks) = 3
    /\ Last(fr.reorg.reverse_blocks).parent_hash = fr.reorg.forward_blocks[1].parent_hash
    /\ Last(fr.reorg.reverse_blocks).hash # fr.reorg.forward_blocks[1].hash
    /\ Last(fr.reorg.reverse_blocks).number > fr.env.first_number

\* C18 (the search does not cross the first block), as claimed: no block of
\* a returned reorg is numbered below first_block.number, and a walk that
\* finds no common ancestor stops at the block numbered first_block.number.
C18_StopsAtFirstBlock ==
    (Returned /\ fr.result = "Ok") =>
        LET rev == fr.reorg.reverse_blocks
            fwd == fr.reorg.forward_blocks
        IN  /\ \A i \in 1..Len(rev) : rev[i].number >= fr.env.first_number
            /\ \A i \in 1..Len(fwd) : fwd[i].number >= fr.env.first_number
            /\ Last(rev).parent_hash # fwd[1].parent_hash
                  => /\ Last(rev).number = fr.env.first_number
                     /\ fwd[1].number = fr.env.first_number

(***************************************************************************)
(* SpecCall: the receivers as in Spec, followed by one call of a           *)
(* dispatchable that is recorded whole in op: its origin, signature and    *)
(* message, the storage before it, and the handler's state on return.      *)
(* The call is any message on any storage the receivers can reach, also    *)
(* from a signed origin, with a signature that does not recover, or by a   *)
(* signer outside the validator set.                                       *)
(***************************************************************************)
\* The dispatchables of the pallet: ensure_none(origin)?, then the handler.
dispatch_receive_chain_blocks(st, origin, blocks, signature) ==
    IF ~ensure_none(origin).ok
    THEN [Entered(st) EXCEPT !.result = ensure_none(origin).err]
    ELSE receive_chain_blocks(st, blocks, signature)

dispatch_receive_chain_reorg(st, origin, reorg, signature) ==
    IF ~ensure_none(origin).ok
    THEN [Entered(st) EXCEPT !.result = ensure_none(origin).err]
    ELSE receive_chain_reorg(st, reorg, signature)

\* Who calls: each validator, a signature that does not recover, a signer
\* that is not a validator, and a validator's message under a signed origin.
Callers ==
    { [origin |-> "none", signature |-> v] : v \in Validators \cup {"invalid", "mallory"} }
        \cup { [origin |-> "signed", signature |-> "val_a"] }

NotCalled == op.kind \notin {"call_blocks", "call_reorg"}

\* A block that names the first block as its parent and is numbered two
\* above it.
SkippingBlock == ChainBlock(3, 6, 1, <<>>)

\* The blocks messages of a recorded call: the empty message and the
\* messages over the blocks of the two forks and the skipping block.
CallMessages == SeqsUpTo(BlockUniverse \cup {SkippingBlock}, MaxMsgLen)

Recorded(kind, caller, blocks, reorg, st) ==
    [kind |-> kind, origin |-> caller.origin, signature |-> caller.signature,
     blocks |-> blocks, reorg |-> reorg, before |-> Storage, after |-> st]

DeliverBlocks == NotCalled /\ ReceiveChainBlocks

DeliverReorg == NotCalled /\ ReceiveChainReorg

CallBlocks ==
    /\ NotCalled
    /\ \E blocks \in CallMessages, caller \in Callers :
          LET st == dispatch_receive_chain_blocks(Storage, caller.origin, blocks,
                                                  caller.signature)
          IN  /\ Store(st)
              /\ op' = Recorded("call_blocks", caller, blocks, NoReorg, st)
              /\ UNCHANGED <<fr, worker>>

CallReorg ==
    /\ NotCalled
    /\ \E reorg \in ReorgMessages, caller \in Callers :
          LET st == dispatch_receive_chain_reorg(Storage, caller.origin, reorg,
                                                 caller.signature)
          IN  /\ Store(st)
              /\ op' = Recorded("call_reorg", caller, <<>>, reorg, st)
              /\ UNCHANGED <<fr, worker>>

NextCall == DeliverBlocks \/ DeliverReorg \/ CallBlocks \/ CallReorg

SpecCall == Init /\ [][NextCall]_vars

(***************************************************************************)
(* Claims about a recorded receive_chain_blocks call.                      *)
(***************************************************************************)
\* The call passed the origin and signature checks and ran the tally loop.
BlocksTallied == op.kind = "call_blocks" /\ op.after.result = "Ok"

\* The handler's pending_blocks after the first i blocks of the message.
PendingAt(i) ==
    TallyBlocks(op.before.pending_blocks, op.before.last_block,
                SubSeq(op.blocks, 1, i), 1, op.signature)

OffsetOf(i) == op.blocks[i].number - op.before.last_block.number - 1

\* The i-th block of the message has an expected parent (LastProcessedBlock
\* at offset 0, otherwise the pending block at offset - 1) and its
\* parent_hash is not that block's hash.
ParentMismatch(i) ==
    /\ OffsetOf(i) >= 0
    /\ OffsetOf(i) <= Len(PendingAt(i - 1))
    /\ op.blocks[i].parent_hash #
          (IF OffsetOf(i) = 0 THEN op.before.last_block.hash
           ELSE PendingAt(i - 1)[OffsetOf(i)].block.hash)

\* C11 (a parent mismatch is ignored), as claimed: a block of the message
\* whose parent_hash mismatches its expected parent changes no tally.
C11_MismatchIgnored ==
    BlocksTallied =>
        \A i \in 1..Len(op.blocks) : ParentMismatch(i) => PendingAt(i) = PendingAt(i - 1)

\* C11 (a parent mismatch is ignored), amended: a block whose parent_hash
\* mismatches its expected parent changes no tally when no tally is pending
\* at its offset; when one is pending there, the block differs from the
\* tally's block and the signer is moved to that tally's dissent, and no
\* other tally changes.
C11_MismatchIgnoredAtFreeOffset ==
    BlocksTallied =>
        /\ op.after.tallied = PendingAt(Len(op.blocks))
        /\ \A i \in 1..Len(op.blocks) :
              ParentMismatch(i) =>
                 LET p == PendingAt(i - 1)
                 IN  IF OffsetOf(i) < Len(p)
                     THEN PendingAt(i) =
                            [p EXCEPT ![OffsetOf(i) + 1] =
                                [block |-> @.block,
                                 support |-> @.support \ {op.signature},
                                 dissent |-> @.dissent \cup {op.signature}]]
                     ELSE PendingAt(i) = p

\* C11 witness: a message held a block above a pending one, with no tally at
\* its offset and a parent_hash that is not the pending block's hash; the
\* tallies are as before and the signer dissents nowhere.
C11_Witness ==
    /\ BlocksTallied
    /\ \E i \in 1..Len(op.blocks) :
          /\ ParentMismatch(i)
          /\ OffsetOf(i) > 0
          /\ OffsetOf(i) = Len(PendingAt(i - 1))
    /\ op.after.pending_blocks = op.before.pending_blocks
    /\ op.before.pending_blocks # <<>>
    /\ \A k \in 1..Len(pending_blocks) : op.signature \notin pending_blocks[k].dissent

\* The queue that ingress_queue leaves, whatever the ledger.
QueueAfterRound(block, queue) == ingress_queue(block, queue, EmptyLedger).retained

\* C20 (greedy advance from the head): with t the pending blocks after the
\* message's votes, the blocks the message finalizes are a prefix of t, each
\* with quorum support, ending before the first tally without it, so no
\* later tally with quorum support is finalized before its predecessors;
\* LastProcessedBlock is the last of them (or unchanged), each was the head
\* of the list and the child of LastProcessedBlock when it was finalized,
\* and each had its events pushed on the queue and then exactly one
\* ingress_queue round, run with last_block set to that block.
C20_GreedyAdvance ==
    BlocksTallied =>
        LET t == op.after.tallied
            fin == op.after.finalized
            rounds == op.after.rounds
            n == Len(fin)
        IN  /\ n <= Len(t)
            /\ \A k \in 1..n :
                  /\ fin[k] = t[k].block
                  /\ has_enough_support(t[k], Validators)
                  /\ fin[k].parent_hash =
                        (IF k = 1 THEN op.before.last_block.hash ELSE fin[k - 1].hash)
            /\ n < Len(t) => ~has_enough_support(t[n + 1], Validators)
            /\ last_block = (IF n = 0 THEN op.before.last_block ELSE fin[n])
            /\ pending_blocks =
                  (IF n < Len(t) /\ has_enough_dissent(t[n + 1], Validators)
                   THEN <<>> ELSE SubSeq(t, n + 1, Len(t)))
            /\ Len(rounds) = n
            /\ \A k \in 1..n :
                  /\ rounds[k].block = fin[k]
                  /\ rounds[k].queue =
                        push(IF k = 1 THEN op.before.event_queue
                             ELSE QueueAfterRound(fin[k - 1], rounds[k - 1].queue),
                             fin[k])
            /\ event_queue =
                  (IF n = 0 THEN op.before.event_queue
                   ELSE QueueAfterRound(fin[n], rounds[n].queue))

\* C20 witness: after the message's votes the second pending block has
\* quorum support and the head has not; nothing is finalized and
\* LastProcessedBlock stays.
C20_Witness ==
    /\ BlocksTallied
    /\ Len(op.after.tallied) = 2
    /\ ~has_enough_support(op.after.tallied[1], Validators)
    /\ has_enough_support(op.after.tallied[2], Validators)
    /\ op.after.finalized = <<>>
    /\ last_block = op.before.last_block
    /\ pending_blocks = op.after.tallied

\* The ledger and the notices that the recorded rounds leave, run in order
\* from the ledger l.
RECURSIVE AfterRounds(_, _, _)
AfterRounds(rounds, i, acc) ==
    IF i > Len(rounds)
    THEN acc
    ELSE LET round == ingress_queue(rounds[i].block, rounds[i].queue, acc.ledger)
         IN  AfterRounds(rounds, i + 1,
                         [ledger |-> round.ledger, emitted |-> acc.emitted \o round.emitted])

\* After the message's votes and the blocks it finalizes, the head of the
\* pending list lacks quorum support and has quorum dissent.
HeadPurged ==
    /\ BlocksTallied
    /\ Len(op.after.finalized) < Len(op.after.tallied)
    /\ LET head == op.after.tallied[Len(op.after.finalized) + 1]
       IN  /\ ~has_enough_support(head, Validators)
           /\ has_enough_dissent(head, Validators)

\* C21 (dissent purge): when, after the message's votes and the blocks it
\* finalizes, the head of the pending list lacks quorum support and has
\* quorum dissent, PendingChainBlocks is left empty, whatever the support
\* of the tallies behind the head; the purge itself changes nothing else:
\* LastProcessedBlock is the last block finalized by the message (or
\* unchanged), the blocks finalized before the purge stay finalized with one
\* round each, and the queue, the ledger and the notices are exactly what
\* those rounds leave.
C21_DissentPurge ==
    HeadPurged =>
        LET t == op.after.tallied
            fin == op.after.finalized
            rounds == op.after.rounds
            n == Len(fin)
            ran == AfterRounds(rounds, 1, [ledger |-> op.before.ledger, emitted |-> <<>>])
        IN  /\ pending_blocks = <<>>
            /\ fin = [k \in 1..n |-> t[k].block]
            /\ last_block = (IF n = 0 THEN op.before.last_block ELSE t[n].block)
            /\ Len(rounds) = n
            /\ \A k \in 1..n : rounds[k].block = fin[k]
            /\ event_queue =
                  (IF n = 0 THEN op.before.event_queue
                   ELSE QueueAfterRound(fin[n], rounds[n].queue))
            /\ ledger = ran.ledger
            /\ op.after.emitted = ran.emitted

\* C21 witness: the head reached quorum dissent while the tally behind it
\* had quorum support; both are gone and nothing was finalized.
C21_Witness ==
    /\ HeadPurged
    /\ op.after.finalized = <<>>
    /\ Len(op.after.tallied) = 2
    /\ has_enough_support(op.after.tallied[2], Validators)
    /\ pending_blocks = <<>>
    /\ last_block = op.before.last_block
    /\ event_queue = op.before.event_queue

\* The message finalized a block and then purged the list at the next head.
C21_PurgeAfterFinalizing ==
    /\ HeadPurged
    /\ Len(op.after.finalized) = 1
    /\ last_block = op.after.finalized[1]
    /\ last_block # op.before.last_block
    /\ pending_blocks = <<>>

\* C29 (the head advances one block at a time): each block that a
\* receive_chain_blocks call makes LastProcessedBlock is numbered one above
\* the block it replaces and names it as its parent, so the call leaves
\* the head's number where it was or higher, by the number of blocks it
\* finalized; and in every state the i-th pending tally (counted from 0)
\* holds a block numbered LastProcessedBlock.number + 1 + i, as do the
\* tallies right after the call's votes, counted from the head before.
C29_HeadAdvancesByOne ==
    /\ \A i \in 1..Len(pending_blocks) :
          pending_blocks[i].block.number = last_block.number + i
    /\ op.kind = "call_blocks" =>
          LET fin == op.after.finalized
              before == op.before.last_block
          IN  /\ \A k \in 1..Len(fin) :
                    LET p == IF k = 1 THEN before ELSE fin[k - 1]
                    IN  /\ fin[k].number = p.number + 1
                        /\ fin[k].parent_hash = p.hash
              /\ last_block = (IF fin = <<>> THEN before ELSE Last(fin))
              /\ last_block.number = before.number + Len(fin)
              /\ \A i \in 1..Len(op.after.tallied) :
                    op.after.tallied[i].block.number = before.number + i

\* C29 witness: one message finalized two blocks, the head moving up by
\* one twice.
C29_Witness ==
    /\ BlocksTallied
    /\ Len(op.after.finalized) = 2
    /\ last_block = op.after.finalized[2]
    /\ last_block.number = op.before.last_block.number + 2
    /\ op.after.finalized[1].number = op.before.last_block.number + 1

\* A message held the skipping block when its parent was the head; no tally
\* was made for it.
C29_SkippingBlockIgnored ==
    /\ BlocksTallied
    /\ op.blocks = <<SkippingBlock>>
    /\ op.before.last_block = FirstBlock
    /\ op.before.pending_blocks = <<>>
    /\ pending_blocks = <<>>

\* C14 (unauthenticated messages are rejected): a receive_chain_blocks call
\* from an origin other than none fails with BadOrigin; from origin none,
\* one whose signature does not recover fails with CryptoError and one whose
\* signer is not in the validator set fails with UnknownValidator; each
\* leaves LastProcessedBlock, the tallies, the queue and the ledger as they
\* were, and a call is accepted only from origin none and a validator.
C14_UnauthenticatedRejected ==
    op.kind = "call_blocks" =>
        /\ op.origin # "none" => op.after.result = "BadOrigin"
        /\ (op.origin = "none" /\ op.signature = "invalid")
              => op.after.result = "CryptoError"
        /\ (op.origin = "none" /\ op.signature \notin Validators \cup {"invalid"})
              => op.after.result = "UnknownValidator"
        /\ op.after.result \in {"BadOrigin", "CryptoError", "UnknownValidator"}
              => (Storage = op.before /\ op.after.finalized = <<>>
                     /\ op.after.emitted = <<>>)
        /\ op.after.result = "Ok" => (op.origin = "none" /\ op.signature \in Validators)

\* C14 witness: a signer outside the validator set delivered the block that
\* a validator supports and that a validator's vote would have finalized,
\* and was rejected.
C14_Witness ==
    /\ op.kind = "call_blocks"
    /\ op.after.result = "UnknownValidator"
    /\ op.blocks # <<>>
    /\ pending_blocks # <<>>
    /\ op.blocks[1] = pending_blocks[1].block
    /\ Cardinality(pending_blocks[1].support) = 1
    /\ Storage = op.before

(***************************************************************************)
(* Claims about a recorded receive_chain_reorg call.                       *)
(***************************************************************************)
Count(seq, x) == Cardinality({ i \in 1..Len(seq) : seq[i] = x })

\* The events of a sequence of blocks, block by block.
RECURSIVE EventsOf(_)
EventsOf(blocks) ==
    IF blocks = <<>> THEN <<>> ELSE events(Head(blocks)) \o EventsOf(Tail(blocks))

\* seq[i] is the k-th occurrence of its value in seq.
OccurrenceAt(seq, i) == Cardinality({ j \in 1..i : seq[j] = seq[i] })

\* The queue without, for each event, its first occurrences, as many as the
\* reverse blocks hold of the event.
RECURSIVE QueueLessFirst(_, _, _)
QueueLessFirst(queue, evs, i) ==
    IF i > Len(queue) THEN <<>>
    ELSE (IF OccurrenceAt(queue, i) > Count(evs, queue[i]) THEN <<queue[i]>> ELSE <<>>)
            \o QueueLessFirst(queue, evs, i + 1)

\* The reverse blocks' events that find no equal event left in the queue.
RECURSIVE NotQueued(_, _, _)
NotQueued(queue, evs, k) ==
    IF k > Len(evs) THEN <<>>
    ELSE (IF OccurrenceAt(evs, k) > Count(queue, evs[k]) THEN <<evs[k]>> ELSE <<>>)
            \o NotQueued(queue, evs, k + 1)

IsPrefix(s, t) == Len(s) <= Len(t) /\ s = SubSeq(t, 1, Len(s))

Reorged == op.kind = "call_reorg" /\ op.after.reorged

\* The ledger l with one application of each event of evs undone.
RECURSIVE LedgerLess(_, _)
LedgerLess(l, evs) ==
    IF evs = <<>> THEN l
    ELSE LedgerLess(LedgerSet(l, Head(evs), LedgerCount(l, Head(evs)) - 1), Tail(evs))

\* The events of the revert steps that were unapplied, in order.
RECURSIVE UnappliedOf(_)
UnappliedOf(steps) ==
    IF steps = <<>> THEN <<>>
    ELSE (IF Head(steps).unapply THEN <<Head(steps).event>> ELSE <<>>)
            \o UnappliedOf(Tail(steps))

\* C25 (order of a reorg): when a reorg is carried out, the revert phase
\* takes the events of the reverse blocks block by block in the order the
\* message gives them, each event removed from the queue or unapplied; the
\* forward blocks are then pushed in the order given, each followed by one
\* ingress_queue round run at that block; and the whole revert phase comes
\* first: the first forward block is pushed on the queue that all the
\* removals left, and the rounds start from the ledger that all the
\* unapplies left, so that the queue, the ledger and the notices after the
\* message are those of the rounds run in order from there.
C25_ReorgOrder ==
    Reorged =>
        LET evs == EventsOf(op.reorg.reverse_blocks)
            fwd == op.reorg.forward_blocks
            steps == op.after.reverted
            rounds == op.after.rounds
            ran == AfterRounds(rounds, 1,
                               [ledger |-> LedgerLess(op.before.ledger, op.after.unapplied),
                                emitted |-> <<>>])
        IN  /\ [k \in 1..Len(steps) |-> steps[k].event] = evs
            /\ op.after.unapplied = UnappliedOf(steps)
            /\ op.after.reverted_queue = QueueLessFirst(op.before.event_queue, evs, 1)
            /\ op.after.finalized = fwd
            /\ Len(rounds) = Len(fwd)
            /\ \A b \in 1..Len(fwd) :
                  /\ rounds[b].block = fwd[b]
                  /\ rounds[b].queue =
                        push(IF b = 1 THEN op.after.reverted_queue
                             ELSE QueueAfterRound(fwd[b - 1], rounds[b - 1].queue),
                             fwd[b])
            /\ ledger = ran.ledger
            /\ op.after.emitted = ran.emitted
            /\ last_block = (IF fwd = <<>> THEN op.before.last_block ELSE Last(fwd))
            /\ event_queue =
                  (IF fwd = <<>> THEN op.after.reverted_queue
                   ELSE QueueAfterRound(Last(fwd), Last(rounds).queue))

\* C25 witness: a reorg reverted two blocks, taking the event of the newer
\* one from the queue and then unapplying the event of the older one, and
\* went forward over two blocks, the round of the second applying events
\* of the first.
C25_Witness ==
    /\ Reorged
    /\ Len(op.reorg.reverse_blocks) = 2
    /\ Len(op.after.reverted) = 2
    /\ ~op.after.reverted[1].unapply
    /\ op.after.reverted[1].event.block_number = op.reorg.reverse_blocks[1].number
    /\ op.after.reverted[2].unapply
    /\ op.after.reverted[2].event.block_number = op.reorg.reverse_blocks[2].number
    /\ Len(op.after.rounds) = 2
    /\ op.after.emitted # <<>>
    /\ op.after.emitted[1].event.block_number = op.reorg.forward_blocks[1].number
    /\ last_block = op.reorg.forward_blocks[2]

\* The recorded reorg call was accepted and left its tally short of quorum.
VotedOnly ==
    /\ op.kind = "call_reorg"
    /\ op.after.result = "Ok"
    /\ ~op.after.quorum

\* C24 (a vote short of quorum changes the reorg tallies only): an accepted
\* receive_chain_reorg call that does not bring its tally to quorum support
\* leaves LastProcessedBlock, PendingChainBlocks, the queue and the ledger
\* as they were, invokes no apply and no unapply, runs no round and
\* deposits no notice; of PendingChainReorgs it changes one tally: the
\* first tally of an equal reorg gains the signer, or, when there is none,
\* a new tally with the signer alone is appended.
C24_VoteShortOfQuorum ==
    VotedOnly =>
        LET old == op.before.pending_reorgs
            found == { i \in 1..Len(old) : old[i].reorg = op.reorg }
        IN  /\ last_block = op.before.last_block
            /\ pending_blocks = op.before.pending_blocks
            /\ event_queue = op.before.event_queue
            /\ ledger = op.before.ledger
            /\ op.after.unapplied = <<>>
            /\ op.after.rounds = <<>>
            /\ op.after.emitted = <<>>
            /\ IF found # {}
               THEN LET i == CHOOSE i \in found : \A j \in found : i <= j
                    IN  /\ pending_reorgs =
                              [old EXCEPT ![i] = [reorg |-> op.reorg,
                                                  support |-> @.support \cup {op.signature}]]
                        /\ ~has_enough_support(pending_reorgs[i], Validators)
               ELSE /\ pending_reorgs =
                          Append(old, [reorg |-> op.reorg, support |-> {op.signature}])
                    /\ ~has_enough_support(Last(pending_reorgs), Validators)

\* C24 witness: a validator's reorg was tallied next to the tally of another
\* reorg while a block tally was pending and an event was queued.
C24_Witness ==
    /\ VotedOnly
    /\ Len(op.before.pending_reorgs) = 1
    /\ Len(pending_reorgs) = 2
    /\ pending_reorgs[2].support = {op.signature}
    /\ pending_blocks # <<>>
    /\ event_queue # <<>>

\* The signer of the recorded call had already voted for an equal reorg.
VotedBefore ==
    \E i \in 1..Len(op.before.pending_reorgs) :
        /\ op.before.pending_reorgs[i].reorg = op.reorg
        /\ op.signature \in op.before.pending_reorgs[i].support

\* C28 (a duplicate reorg vote changes nothing): when a validator delivers
\* a reorg that it has already voted for and quorum is not reached, the
\* reorg tallies, and all of the storage, are left as they were; and any
\* vote short of quorum, delivered once more by the same signer, is
\* accepted again and leaves PendingChainReorgs as the first delivery left
\* it, with one tally for the reorg and the signer once in its support.
C28_DuplicateReorgVote ==
    VotedOnly =>
        LET again == receive_chain_reorg(Storage, op.reorg, op.signature)
            same == { i \in 1..Len(pending_reorgs) : pending_reorgs[i].reorg = op.reorg }
        IN  /\ VotedBefore => Storage = op.before
            /\ again.result = "Ok"
            /\ ~again.quorum
            /\ again.pending_reorgs = pending_reorgs
            /\ AsStorage(again) = Storage
            /\ Cardinality(same) = 1
            /\ \A i \in same : op.signature \in pending_reorgs[i].support

\* C28 witness: a validator delivered again the reorg of the tally that holds
\* its vote alone, while a block tally was pending; the tally is as before.
C28_Witness ==
    /\ VotedOnly
    /\ VotedBefore
    /\ pending_reorgs = op.before.pending_reorgs
    /\ Len(pending_reorgs) = 1
    /\ pending_reorgs[1].reorg = op.reorg
    /\ pending_reorgs[1].support = {op.signature}
    /\ op.reorg.reverse_blocks # <<>>
    /\ pending_blocks # <<>>

\* The recorded reorg call reached quorum and an unapply of its revert phase
\* failed.
RevertFailed ==
    /\ op.kind = "call_reorg"
    /\ op.after.quorum
    /\ op.after.result # "Ok"

\* C22 (a failed revert persists nothing), as claimed: when an unapply fails
\* in the revert phase, the message fails with that error and
\* LastProcessedBlock, PendingChainBlocks, PendingChainReorgs, the queue and
\* the ledger are all as before the message, the events unapplied before
\* the failing one included.
C22_FailedRevertPersistsNothing ==
    RevertFailed =>
        /\ op.after.result = "InsufficientLiquidity"
        /\ op.after.unapplied # <<>>
        /\ last_block = op.before.last_block
        /\ pending_blocks = op.before.pending_blocks
        /\ pending_reorgs = op.before.pending_reorgs
        /\ event_queue = op.before.event_queue
        /\ ledger = op.before.ledger

\* The ledger when the k-th unapply of the recorded call was invoked.
LedgerAtUnapply(k) == LedgerLess(op.before.ledger, SubSeq(op.after.unapplied, 1, k - 1))

\* C30 (unapply only of applied events), as claimed: every event that
\* receive_chain_reorg invokes unapply for was applied successfully before
\* and not unapplied since, so that the ledger holds an application of it
\* when unapply is invoked.
C30_UnapplyOnlyApplied ==
    op.kind = "call_reorg" =>
        \A k \in 1..Len(op.after.unapplied) :
            LedgerCount(LedgerAtUnapply(k), op.after.unapplied[k]) >= 1

(***************************************************************************)
(* SpecPipeline: blocks keep being finalized.  From the first block, the   *)
(* validators deliver, one message each, the block that extends the head;  *)
(* the second vote finalizes it (lines 463-471): its events are pushed,    *)
(* the head advances and a round of ingress_queue runs.  No reorg is       *)
(* delivered.  A block carries no event, a lock of an unsupported asset    *)
(* (no value can be computed), a lock followed by a proposal (the proposal *)
(* exceeds the quota while it is young, and the lock before it uses quota  *)
(* up), or a lock that the ledger rejects.                                 *)
(***************************************************************************)
PipelinePayloads ==
    << <<>>, <<LockUnsupported>>, <<LockBig, ProposalEv>>, <<LockRejected>> >>

\* The block numbered one above the head, on the head, carrying payload k.
NextBlock(k) ==
    ChainBlock(last_block.number + 1, 10 * (last_block.number + 1) + k,
               last_block.hash, PipelinePayloads[k])

\* What a validator's worker submits: the block that is pending on the head
\* or, when none is, a block it observed above the head.
ObservedBlocks ==
    IF pending_blocks = <<>>
    THEN { NextBlock(k) : k \in DOMAIN PipelinePayloads }
    ELSE { pending_blocks[1].block }

ObserveBlock ==
    /\ last_block.number < MaxPipelineHeight
    /\ \E block \in ObservedBlocks, signature \in Validators :
          LET st == receive_chain_blocks(Storage, <<block>>, signature)
          IN  /\ Store(st)
              /\ op' = [kind |-> "observe_block", signature |-> signature,
                        block |-> block, before |-> Storage, after |-> st]
              /\ UNCHANGED <<fr, worker>>

NextPipeline == ObserveBlock

SpecPipeline == Init /\ [][NextPipeline]_vars

\* The queue that the rounds of the last message worked on: the queue before
\* the message with the events of the blocks it finalized pushed.
Ingressed == op.before.event_queue \o EventsOf(op.after.finalized)

\* The events that the notices of the last message name, in order.
Noticed == [j \in 1..Len(op.after.emitted) |-> op.after.emitted[j].event]

\* The event is due: the head is numbered above its block's number plus
\* MAX_EVENT_BLOCKS.
Due(ev) == last_block.number > ev.block_number + MAX_EVENT_BLOCKS

\* C32 (no event stays queued forever): while blocks keep being finalized,
\* the queue never holds an event whose block is numbered more than
\* MAX_EVENT_BLOCKS below the head: the round of the first block numbered
\* above n + MAX_EVENT_BLOCKS takes every event numbered n that is still
\* queued off the queue, with a ProcessedChainBlockEvent or a
\* FailedProcessingChainBlockEvent notice for it, whether or not its value
\* can be computed or ever fitted the quota; and an event leaves the queue
\* only with such a notice.
C32_NoEventOverdue ==
    /\ \A i \in 1..Len(event_queue) : ~Due(event_queue[i])
    /\ op.kind = "observe_block" =>
          /\ \A i \in 1..Len(Ingressed) :
                LET ev == Ingressed[i]
                IN  /\ Count(Ingressed, ev) = Count(event_queue, ev) + Count(Noticed, ev)
                    /\ Due(ev) => Count(Noticed, ev) = Count(Ingressed, ev)
          /\ \A j \in 1..Len(Noticed) : Count(Ingressed, Noticed[j]) >= 1
          /\ \A j \in 1..Len(op.after.emitted) :
                op.after.emitted[j].notice \in
                    {"ProcessedChainBlockEvent", "FailedProcessingChainBlockEvent"}

\* C32 witness: the block numbered n + MAX_EVENT_BLOCKS + 1 is finalized
\* while the queue still holds a lock numbered n whose value cannot be
\* computed, which was queued through MAX_EVENT_BLOCKS rounds, and a
\* proposal whose value exceeded the quota in the round before; its round
\* takes both off the queue.
C32_Witness ==
    /\ op.kind = "observe_block"
    /\ op.after.finalized # <<>>
    /\ \E i \in 1..Len(op.before.event_queue) :
          LET ev == op.before.event_queue[i]
          IN  /\ ev.event = LockUnsupported
              /\ last_block.number = ev.block_number + MAX_EVENT_BLOCKS + 1
              /\ ~risk_adjusted_value(ev, last_block.number).ok
              /\ Count(Noticed, ev) = 1
              /\ Count(event_queue, ev) = 0
    /\ \E i \in 1..Len(op.before.event_queue) :
          LET ev == op.before.event_queue[i]
          IN  /\ ev.event = ProposalEv
              /\ IsMature(delta_blocks(op.before.last_block.number, ev))
              /\ risk_adjusted_value(ev, op.before.last_block.number).value
                    > INGRESS_QUOTA
              /\ Count(Noticed, ev) = 1

(***************************************************************************)
(* SpecWorker: track_chain_events (events.rs 113-133) in one validator     *)
(* process.  The process starts an invocation per imported block, so a     *)
(* second invocation can start while the first still runs.  The lock is    *)
(* StorageLock::<Time>::with_deadline: try_lock takes the lock when none   *)
(* is stored or the stored deadline has passed, and stores a deadline one  *)
(* lock period ahead; dropping the guard clears the stored lock.  The      *)
(* clock counts in units of 60 seconds.  Inside the lock an invocation     *)
(* fetches, memorizes and submits (track_chain_events_on, 136-187); each   *)
(* is counted as an observable effect of the invocation.                   *)
(***************************************************************************)
\* Duration::from_millis(120_000), in units of 60 seconds.
LockDeadline == 2

NoLock == 0

Invocations == {"run_1", "run_2"}

Inside == {"fetch", "memorize", "submit"}

\* Lockable::has_expired for Time: the clock is past the stored deadline.
has_expired(deadline, now) == now > deadline

\* StorageLock::try_lock on the stored lock: the lock it stores, if taken.
try_lock(lock, now) ==
    IF lock = NoLock \/ has_expired(lock, now)
    THEN Ok(now + LockDeadline)
    ELSE Err("WorkerBusy")

InitWorker ==
    /\ last_block = FirstBlock
    /\ pending_blocks = <<>>
    /\ pending_reorgs = <<>>
    /\ event_queue = <<>>
    /\ ledger = EmptyLedger
    /\ op = OpInit
    /\ fr = FrIdle
    /\ worker = [now |-> 0, lock |-> NoLock,
                 pc |-> [w \in Invocations |-> "idle"],
                 effects |-> [w \in Invocations |-> 0]]

\* The clock advances; an RPC fetch may take any time.
Tick ==
    /\ worker.now < MaxClock
    /\ worker' = [worker EXCEPT !.now = @ + 1]
    /\ UNCHANGED <<chainVars, op, fr>>

\* Lines 117-131: lock.try_lock(), and WorkerBusy when it fails.
TryLock(w) ==
    /\ worker.pc[w] = "idle"
    /\ LET locked == try_lock(worker.lock, worker.now)
       IN  worker' = IF locked.ok
                     THEN [worker EXCEPT !.lock = locked.value, !.pc[w] = "fetch"]
                     ELSE [worker EXCEPT !.pc[w] = "busy"]
    /\ UNCHANGED <<chainVars, op, fr>>

\* Line 144: fetch_chain_block (and 154-165 or 174-176).
Fetch(w) ==
    /\ worker.pc[w] = "fetch"
    /\ worker' = [worker EXCEPT !.pc[w] = "memorize", !.effects[w] = @ + 1]
    /\ UNCHANGED <<chainVars, op, fr>>

\* Lines 167 / 178: memorize_chain_blocks.
Memorize(w) ==
    /\ worker.pc[w] = "memorize"
    /\ worker' = [worker EXCEPT !.pc[w] = "submit", !.effects[w] = @ + 1]
    /\ UNCHANGED <<chainVars, op, fr>>

\* Lines 168 / 179: the submission; then the guard is dropped (line 128).
Submit(w) ==
    /\ worker.pc[w] = "submit"
    /\ worker' = [worker EXCEPT !.pc[w] = "done", !.effects[w] = @ + 1,
                                !.lock = NoLock]
    /\ UNCHANGED <<chainVars, op, fr>>

NextWorker ==
    \/ Tick
    \/ \E w \in Invocations : TryLock(w)
    \/ \E w \in Invocations : Fetch(w)
    \/ \E w \in Invocations : Memorize(w)
    \/ \E w \in Invocations : Submit(w)

SpecWorker == InitWorker /\ [][NextWorker]_vars

\* C19 (exclusive fetch-and-submit section), as claimed: at most one
\* invocation of track_chain_events is inside the section at any time,
\* however long the holder runs, and an invocation that returned WorkerBusy
\* has fetched, memorized and submitted nothing.
C19_ExclusiveSection ==
    /\ Cardinality({ w \in Invocations : worker.pc[w] \in Inside }) <= 1
    /\ \A w \in Invocations : worker.pc[w] = "busy" => worker.effects[w] = 0

====
